---- MODULE Spec2Model ----
(***************************************************************************)
(* Model of alpha-beta-analyzer/scripts/validate_stock_data.py: the date   *)
(* normalizer (standardize_dates), the sequence validator                  *)
(* (check_timeseries_sequence), the gap imputer (impute_missing_values)    *)
(* and the pipeline that chains them (main).                               *)
(*                                                                         *)
(* A Python string is a sequence of one-character strings; a datetime is   *)
(* a triple <<year, month, day>> and None is the empty sequence; a numeric *)
(* cell is <<v>> when present and <<>> (NaN) when missing; a table (a      *)
(* DataFrame with a RangeIndex) is a function from column names to         *)
(* columns of equal length.  TLA+ sequences are 1-based: the 0-based row   *)
(* idx of the code is position idx + 1 here, and the row numbers of the    *)
(* reports (idx + 2) are position + 1.                                     *)
(***************************************************************************)
EXTENDS Integers, Sequences, FiniteSets, TLC

VARIABLES
    pc,                      \* where the run of main (or of a harness) stands
    file,                    \* the input file: its kind and the table in it
    args,                    \* parsed arguments: max_consecutive, skip_date_validation
    df,                      \* the table read from the file
    df_standardized,         \* standardize_dates(df)[0]
    date_conversion_report,  \* standardize_dates(df)[1]
    parsed_dates,            \* parsed_date of every row of the last standardize_dates
    df_restandardized,       \* standardize_dates(df_standardized)[0]
    reconversion_report,     \* standardize_dates(df_standardized)[1]
    date_errors,             \* check_date_column(df_standardized)[1]
    timeseries_report,       \* check_timeseries_sequence(df_standardized)[1]
    df_clean,                \* impute_missing_values(...)[0]
    imputation_report,       \* impute_missing_values(...)[1]
    output_file,             \* the table written by to_csv, <<>> while none is
    exit_code,               \* the status main exits with, -1 while running
    stages                   \* the transformation stages run so far, in order

vars == <<pc, file, args, df, df_standardized, date_conversion_report,
          parsed_dates, df_restandardized, reconversion_report, date_errors,
          timeseries_report, df_clean, imputation_report, output_file,
          exit_code, stages>>

---------------------------------------------------------------------------
(* Strings and numbers *)

DigitSeq == <<"0", "1", "2", "3", "4", "5", "6", "7", "8", "9">>

Digits == {DigitSeq[k] : k \in 1..Len(DigitSeq)}

NonZeroDigits == Digits \ {"0"}

DigitVal(c) == (CHOOSE k \in 1..Len(DigitSeq) : DigitSeq[k] = c) - 1

\* The character at position i of s, "" past its end.
At(s, i) == IF i >= 1 /\ i <= Len(s) THEN s[i] ELSE ""

\* int() of a run of digits, blanks skipped as int() strips them.
RECURSIVE IntOf(_)
IntOf(s) ==
    IF s = <<>> THEN 0
    ELSE IF s[Len(s)] \in Digits
         THEN 10 * IntOf(SubSeq(s, 1, Len(s) - 1)) + DigitVal(s[Len(s)])
         ELSE IntOf(SubSeq(s, 1, Len(s) - 1))

\* n written in decimal, zero-padded to at least width characters.
RECURSIVE ZeroPad(_, _)
ZeroPad(n, width) ==
    IF n < 10 /\ width <= 1 THEN <<DigitSeq[n + 1]>>
    ELSE ZeroPad(n \div 10, width - 1) \o <<DigitSeq[(n % 10) + 1]>>

\* None, and NaN (a missing cell of either kind of column).
None == <<>>

NaN == <<>>

\* pd.isna of a numeric cell.
isna(cell) == cell = NaN

\* A missing cell of the Date column, as read_csv leaves an empty field.
NaNDate == <<"NaN">>

\* str(date_val): a string is itself, a missing cell reads "nan".
str(date_val) == IF date_val = NaNDate THEN <<"n", "a", "n">> ELSE date_val

\* len(df): the number of rows of a table, 0 for a table with no columns.
len(t) == IF DOMAIN t = {} THEN 0 ELSE Len(t[CHOOSE c \in DOMAIN t : TRUE])

---------------------------------------------------------------------------
(* datetime.strptime and datetime.strftime *)

\* A format is the sequence of its directives and literal characters.
FmtYMD == <<"%Y", "-", "%m", "-", "%d">>

FmtMDY == <<"%m", "-", "%d", "-", "%Y">>

FmtDMYSlash == <<"%d", "/", "%m", "/", "%Y">>

Directives == {"%Y", "%m", "%d"}

\* The lengths a directive (or a literal) can match at position i of s, in
\* the order the regular expression of strptime tries its alternatives:
\*   %Y  \d\d\d\d
\*   %m  1[0-2] | 0[1-9] | [1-9]
\*   %d  3[0-1] | [1-2]\d | 0[1-9] | [1-9] | " "[1-9]
Alternatives(tok, s, i) ==
    LET c1 == At(s, i)
        c2 == At(s, i + 1)
    IN  CASE tok = "%Y" ->
               IF \A k \in 0..3 : At(s, i + k) \in Digits THEN <<4>> ELSE <<>>
          [] tok = "%m" ->
               (IF \/ c1 = "1" /\ c2 \in {"0", "1", "2"}
                   \/ c1 = "0" /\ c2 \in NonZeroDigits
                THEN <<2>> ELSE <<>>)
               \o (IF c1 \in NonZeroDigits THEN <<1>> ELSE <<>>)
          [] tok = "%d" ->
               (IF \/ c1 = "3" /\ c2 \in {"0", "1"}
                   \/ c1 \in {"1", "2"} /\ c2 \in Digits
                   \/ c1 = "0" /\ c2 \in NonZeroDigits
                THEN <<2>> ELSE <<>>)
               \o (IF c1 \in NonZeroDigits THEN <<1>> ELSE <<>>)
               \o (IF c1 = " " /\ c2 \in NonZeroDigits THEN <<2>> ELSE <<>>)
          [] OTHER ->
               IF c1 = tok THEN <<1>> ELSE <<>>

NoGroups == [g \in Directives |-> 0]

NoMatch == [ok |-> FALSE, end |-> 0, groups |-> NoGroups]

\* groups with what directive tok captured in s[i..i+n-1]; literals capture
\* nothing.
Capture(groups, tok, s, i, n) ==
    IF tok \in Directives
    THEN [groups EXCEPT ![tok] = IntOf(SubSeq(s, i, i + n - 1))]
    ELSE groups

\* re.match of the format's regular expression against s from position i,
\* with backtracking: for token k the alternatives are tried in order
\* (TryAlternative, from alternative alt on) and the first one after which
\* the rest of the format matches is taken (Backtrack).  Here and below a
\* value the code computes once and then uses several times is bound as the
\* element of a one-element set.
RECURSIVE ReMatch(_, _, _, _, _)
RECURSIVE TryAlternative(_, _, _, _, _, _, _)
RECURSIVE Backtrack(_, _, _, _, _, _, _, _)
ReMatch(s, i, fmt, k, groups) ==
    IF k > Len(fmt) THEN [ok |-> TRUE, end |-> i, groups |-> groups]
    ELSE CHOOSE found \in
           {TryAlternative(s, i, fmt, k, groups, alts, 1) :
              alts \in {Alternatives(fmt[k], s, i)}} : TRUE

TryAlternative(s, i, fmt, k, groups, alts, alt) ==
    IF alt > Len(alts) THEN NoMatch
    ELSE CHOOSE result \in
           {Backtrack(found, s, i, fmt, k, groups, alts, alt) :
              found \in {ReMatch(s, i + alts[alt], fmt, k + 1, captured) :
                           captured \in {Capture(groups, fmt[k], s, i, alts[alt])}}} : TRUE

Backtrack(found, s, i, fmt, k, groups, alts, alt) ==
    IF found.ok THEN found
    ELSE TryAlternative(s, i, fmt, k, groups, alts, alt + 1)

IsLeap(y) == (y % 4 = 0 /\ y % 100 # 0) \/ y % 400 = 0

DaysInMonth(y, m) ==
    CASE m \in {4, 6, 9, 11} -> 30
      [] m = 2 -> IF IsLeap(y) THEN 29 ELSE 28
      [] OTHER -> 31

\* The date of a match: None stands for the ValueError strptime raises when
\* the format does not match, when data remains after the match, or when
\* the fields are no calendar date (year 0, day past the month's end).
DateOfMatch(found, s) ==
    IF ~found.ok THEN None
    ELSE IF found.end # Len(s) + 1 THEN None
    ELSE IF \/ found.groups["%Y"] < 1
            \/ found.groups["%m"] < 1
            \/ found.groups["%m"] > 12
            \/ found.groups["%d"] < 1
            \/ found.groups["%d"] >
                   DaysInMonth(found.groups["%Y"], found.groups["%m"])
         THEN None
    ELSE <<found.groups["%Y"], found.groups["%m"], found.groups["%d"]>>

\* datetime.strptime(s, fmt).
strptime(s, fmt) ==
    CHOOSE date \in {DateOfMatch(found, s) :
                       found \in {ReMatch(s, 1, fmt, 1, NoGroups)}} : TRUE

\* One directive or literal of a format, rendered for a date.  %Y is four
\* digits for the years 1000..9999, the only ones the inputs below hold (how
\* an earlier year is padded depends on the platform's C library).
Render(tok, date) ==
    CASE tok = "%Y" -> ZeroPad(date[1], 4)
      [] tok = "%m" -> ZeroPad(date[2], 2)
      [] tok = "%d" -> ZeroPad(date[3], 2)
      [] OTHER -> <<tok>>

\* date.strftime(fmt).
RECURSIVE strftime(_, _)
strftime(date, fmt) ==
    IF fmt = <<>> THEN <<>>
    ELSE Render(Head(fmt), date) \o strftime(date, Tail(fmt))

\* curr_date > next_date on datetimes.
DateAfter(a, b) ==
    \/ a[1] > b[1]
    \/ a[1] = b[1] /\ a[2] > b[2]
    \/ a[1] = b[1] /\ a[2] = b[2] /\ a[3] > b[3]

---------------------------------------------------------------------------
(* Date Normalizer *)

FmtDMY == <<"%d", "-", "%m", "-", "%Y">>

\* Mutant of StandardFormat: the output written with dashes.
StandardFormatDashes(parsed_date) == strftime(parsed_date, FmtDMY)

\* strftime('%d/%m/%Y') of standardize_dates.
StandardFormat(parsed_date) == strftime(parsed_date, FmtDMYSlash)

\* Mutant of date_formats: a dd-mm-yyyy candidate tried before mm-dd-yyyy.
date_formats_day_first == <<FmtYMD, FmtDMY, FmtMDY>>

\* The candidate input formats, in the order they are tried.
date_formats == <<FmtYMD, FmtMDY>>

\* The for loop of parse_date_with_multiple_formats from format k on: the
\* first format strptime accepts returns (FirstParsed), a ValueError moves
\* to the next.
RECURSIVE TryFormats(_, _, _)
RECURSIVE FirstParsed(_, _, _, _)
TryFormats(s, fmts, k) ==
    IF k > Len(fmts) THEN None
    ELSE CHOOSE parsed_date \in
           {FirstParsed(d, s, fmts, k) : d \in {strptime(s, fmts[k])}} : TRUE

FirstParsed(d, s, fmts, k) ==
    IF d # None THEN d ELSE TryFormats(s, fmts, k + 1)

parse_date_with_multiple_formats(date_str) ==
    TryFormats(str(date_str), date_formats, 1)

\* Mutant of ErrorRow: the header row forgotten (idx + 1).
ErrorRowNoHeader(pos) == pos

\* The row number an error of standardize_dates reports for position pos
\* (idx + 2 for the 0-based idx = pos - 1).
ErrorRow(pos) == pos + 1

EmptyConversion ==
    [dates |-> <<>>, converted |-> 0, already_standard |-> 0,
     errors |-> <<>>, parsed |-> <<>>]

\* The if parsed_date: branch of the loop body of standardize_dates.
Converted(acc, date_str, parsed_date, standardized) ==
    [acc EXCEPT
       !.dates = Append(@, standardized),
       !.parsed = Append(@, parsed_date),
       !.already_standard = IF date_str = standardized THEN @ + 1 ELSE @,
       !.converted = IF date_str = standardized THEN @ ELSE @ + 1]

\* Mutant of Failed: the row of an unparsable date left out of the column.
FailedDropsRow(acc, pos, date_str) ==
    [acc EXCEPT
       !.parsed = Append(@, None),
       !.errors = Append(@, [row |-> ErrorRow(pos), value |-> date_str])]

\* The else: branch, which keeps the original and records the error.
Failed(acc, pos, date_str) ==
    [acc EXCEPT
       !.dates = Append(@, date_str),
       !.parsed = Append(@, None),
       !.errors = Append(@, [row |-> ErrorRow(pos), value |-> date_str])]

\* The loop body of standardize_dates for the row at position pos; acc
\* holds standardized_dates, the report and each parsed_date so far.
StandardizeRow(acc, pos, date_str, parsed_date) ==
    IF parsed_date # None
    THEN Converted(acc, date_str, parsed_date, StandardFormat(parsed_date))
    ELSE Failed(acc, pos, date_str)

\* The for loop of standardize_dates over the Date column, from pos on.
RECURSIVE StandardizeLoop(_, _, _)
StandardizeLoop(col, pos, acc) ==
    IF pos > Len(col) THEN acc
    ELSE CHOOSE result \in
           {StandardizeLoop(col, pos + 1, next) :
              next \in {StandardizeRow(acc, pos, str(col[pos]), parsed_date) :
                          parsed_date \in
                            {parse_date_with_multiple_formats(str(col[pos]))}}} : TRUE

\* What standardize_dates returns for the loop's result acc.
Standardized(t, acc) ==
    [df     |-> [t EXCEPT !["Date"] = acc.dates],
     report |-> [converted        |-> acc.converted,
                 already_standard |-> acc.already_standard,
                 errors           |-> acc.errors],
     parsed |-> acc.parsed]

\* standardize_dates(df): the copy with its Date column replaced, the
\* conversion report, and (for the model) the parsed_date of every row.
standardize_dates(t) ==
    CHOOSE result \in
      {Standardized(t, acc) :
         acc \in {StandardizeLoop(t["Date"], 1, EmptyConversion)}} : TRUE

\* validate_date_format(date_str)[0].
validate_date_format(date_str) == strptime(str(date_str), FmtDMYSlash) # None

\* check_date_column(df)[1]: one entry per row that is not dd/mm/yyyy.
RECURSIVE CheckDateLoop(_, _, _)
CheckDateLoop(col, pos, errors) ==
    IF pos > Len(col) THEN errors
    ELSE CheckDateLoop(col, pos + 1,
           IF validate_date_format(col[pos]) THEN errors
           ELSE Append(errors, [row |-> pos + 1, value |-> str(col[pos])]))

check_date_column(t) == CheckDateLoop(t["Date"], 1, <<>>)

---------------------------------------------------------------------------
(* Sequence Validator *)

\* Mutant of OutOfOrder: equal dates flagged too (>=).
OutOfOrderOrEqual(curr_date, next_date) == ~DateAfter(next_date, curr_date)

\* curr_date > next_date: the test that flags the later row.
OutOfOrder(curr_date, next_date) == DateAfter(curr_date, next_date)

\* First loop of check_timeseries_sequence: the (position, date) pairs of
\* the rows that parse, and one out_of_order entry per row that does not.
RECURSIVE ParseLoop(_, _, _)
ParseLoop(col, pos, acc) ==
    IF pos > Len(col) THEN acc
    ELSE CHOOSE result \in
           {IF p # None
            THEN ParseLoop(col, pos + 1,
                   [acc EXCEPT !.dates = Append(@, <<pos, p>>)])
            ELSE ParseLoop(col, pos + 1,
                   [acc EXCEPT
                      !.is_sequential = FALSE,
                      !.out_of_order =
                          Append(@, [row      |-> pos + 1,
                                     reason   |-> "Cannot parse date",
                                     date     |-> str(col[pos]),
                                     previous |-> <<>>])]) :
              p \in {strptime(str(col[pos]), FmtDMYSlash)}} : TRUE

\* Second loop: each pair of neighbours in the list of parsed dates.
RECURSIVE OrderLoop(_, _, _)
OrderLoop(dates, i, acc) ==
    IF i > Len(dates) - 1 THEN acc
    ELSE LET curr_date == dates[i][2]
             next_pos  == dates[i + 1][1]
             next_date == dates[i + 1][2]
         IN  IF OutOfOrder(curr_date, next_date)
             THEN OrderLoop(dates, i + 1,
                    [acc EXCEPT
                       !.is_sequential = FALSE,
                       !.out_of_order =
                           Append(@, [row      |-> next_pos + 1,
                                      reason   |-> "comes before previous date",
                                      date     |-> strftime(next_date, FmtDMYSlash),
                                      previous |-> strftime(curr_date, FmtDMYSlash)])])
             ELSE OrderLoop(dates, i + 1, acc)

\* check_timeseries_sequence(df)[1].
check_timeseries_sequence(t) ==
    CHOOSE report \in
      {[is_sequential |-> second.is_sequential,
        total_dates   |-> len(t),
        out_of_order  |-> second.out_of_order] :
         second \in
           {OrderLoop(first.dates, 1, first) :
              first \in {ParseLoop(t["Date"], 1,
                           [is_sequential |-> TRUE, out_of_order |-> <<>>,
                            dates |-> <<>>])}}} : TRUE

---------------------------------------------------------------------------
(* Gap Imputer *)

Max(a, b) == IF a >= b THEN a ELSE b

Min(a, b) == IF a <= b THEN a ELSE b

\* str(n) of a non-negative integer.
Decimal(n) == ZeroPad(n, 1)

\* missing_mask[missing_mask].index.tolist(): the missing positions of a
\* column, ascending.
RECURSIVE MissingIndices(_, _)
MissingIndices(col, pos) ==
    IF pos > Len(col) THEN <<>>
    ELSE (IF isna(col[pos]) THEN <<pos>> ELSE <<>>) \o MissingIndices(col, pos + 1)

\* Mutant of RunEnd: neighbouring indices never grouped.
RunEndUngrouped(missing_indices, i) == i

\* The inner while loop: from entry i of missing_indices, the entry at
\* which the run of consecutive indices that starts at i ends.
RECURSIVE RunEnd(_, _)
RunEnd(missing_indices, i) ==
    IF i + 1 <= Len(missing_indices)
       /\ missing_indices[i + 1] = missing_indices[i] + 1
    THEN RunEnd(missing_indices, i + 1)
    ELSE i

\* Series.ffill(): a missing cell takes the nearest present value before it.
RECURSIVE ffill(_)
ffill(series) ==
    IF series = <<>> THEN <<>>
    ELSE CHOOSE filled \in
           {LET last == series[Len(series)]
            IN  Append(front,
                       IF isna(last) /\ front # <<>> THEN front[Len(front)] ELSE last) :
              front \in {ffill(SubSeq(series, 1, Len(series) - 1))}} : TRUE

\* Series.bfill(): a missing cell takes the nearest present value after it.
RECURSIVE bfill(_)
bfill(series) ==
    IF series = <<>> THEN <<>>
    ELSE CHOOSE filled \in
           {LET first == Head(series)
            IN  <<IF isna(first) /\ back # <<>> THEN back[1] ELSE first>> \o back :
              back \in {bfill(Tail(series))}} : TRUE

\* Mutant of WithinThreshold: the boundary excluded (<).
WithinThresholdExclusive(consecutive_count, max_consecutive) ==
    consecutive_count < max_consecutive

\* The test that sends a run to the fill branch.
WithinThreshold(consecutive_count, max_consecutive) ==
    consecutive_count <= max_consecutive

\* Mutant of FillRun: the whole column filled, not the run's window.
FillRunWholeColumn(col, start_idx, end_idx) == bfill(ffill(col))

\* Mutant of FillRun: back fill applied before forward fill.
FillRunBackFirst(col, start_idx, end_idx) ==
    [pos \in 1..Len(col) |->
        IF pos >= start_idx /\ pos <= end_idx
        THEN ffill(bfill(SubSeq(col, Max(1, start_idx - 1),
                                Min(Len(col), end_idx + 1))))
                 [pos - Max(1, start_idx - 1) + 1]
        ELSE col[pos]]

\* The fill branch for the run start_idx..end_idx (positions): the window
\* temp_series of the run and one row of context on each side, forward
\* filled then back filled, written back over the run alone.
FillRun(col, start_idx, end_idx) ==
    LET context_start == Max(1, start_idx - 1)
        context_end   == Min(Len(col), end_idx + 1)
    IN  CHOOSE filled \in
          {[pos \in 1..Len(col) |->
               IF pos >= start_idx /\ pos <= end_idx
               THEN temp_series[pos - context_start + 1]
               ELSE col[pos]] :
             temp_series \in
               {bfill(ffill(SubSeq(col, context_start, context_end)))}} : TRUE

\* The 'rows' text of a report entry; row numbers are idx + 2.
RowsRange(start_idx, end_idx) ==
    Decimal(start_idx + 1) \o <<"-">> \o Decimal(end_idx + 1)

RowsImputed(start_idx, end_idx) ==
    IF start_idx # end_idx THEN RowsRange(start_idx, end_idx)
    ELSE Decimal(start_idx + 1)

\* The outer while loop over missing_indices from entry i on; acc holds the
\* column of df_clean, imputed_positions and not_imputed_positions.
RECURSIVE GroupLoop(_, _, _, _)
GroupLoop(missing_indices, i, max_consecutive, acc) ==
    IF i > Len(missing_indices) THEN acc
    ELSE CHOOSE result \in
           {LET start_idx         == missing_indices[i]
                consecutive_count == j - i + 1
                end_idx           == missing_indices[j]
            IN  IF WithinThreshold(consecutive_count, max_consecutive)
                THEN GroupLoop(missing_indices, j + 1, max_consecutive,
                       [acc EXCEPT
                          !.col = FillRun(@, start_idx, end_idx),
                          !.imputed =
                              Append(@, [rows  |-> RowsImputed(start_idx, end_idx),
                                         count |-> consecutive_count])])
                ELSE GroupLoop(missing_indices, j + 1, max_consecutive,
                       [acc EXCEPT
                          !.not_imputed =
                              Append(@, [rows  |-> RowsRange(start_idx, end_idx),
                                         count |-> consecutive_count])]) :
              j \in {RunEnd(missing_indices, i)}} : TRUE

\* The body of the for loop over the columns, for one column.
ImputeColumn(col, max_consecutive) ==
    CHOOSE result \in
      {GroupLoop(missing_indices, 1, max_consecutive,
                 [col |-> col, imputed |-> <<>>, not_imputed |-> <<>>]) :
         missing_indices \in {MissingIndices(col, 1)}} : TRUE

\* impute_missing_values(df, max_consecutive): the cleaned copy and the
\* report, which lists a column only when it has entries.
impute_missing_values(t, max_consecutive) ==
    LET data == DOMAIN t \ {"Date"}
    IN  CHOOSE result \in
          {[df     |-> [c \in DOMAIN t |-> IF c = "Date" THEN t[c] ELSE done[c].col],
            report |-> [imputed     |-> [c \in {x \in data : done[x].imputed # <<>>}
                                            |-> done[c].imputed],
                        not_imputed |-> [c \in {x \in data : done[x].not_imputed # <<>>}
                                            |-> done[c].not_imputed]]] :
             done \in {[c \in data |-> ImputeColumn(t[c], max_consecutive)]}} : TRUE

---------------------------------------------------------------------------
(* Inputs *)

\* Rows of the Date column the harness of the date functions draws from.
MaxRows == 3

\* Rows of the numeric column the harness of the imputer draws from.
MaxLen == 8

\* Largest max_consecutive drawn.
MaxThreshold == 2

\* Rows of the tables the pipeline reads.
MainRows == 2

\* "2015-01-13": yyyy-mm-dd
IsoJan13 == <<"2", "0", "1", "5", "-", "0", "1", "-", "1", "3">>

\* "01-13-2015": mm-dd-yyyy, no other reading
UsJan13 == <<"0", "1", "-", "1", "3", "-", "2", "0", "1", "5">>

\* "03-04-2015": mm-dd-yyyy, also a valid dd-mm-yyyy
UsMar04 == <<"0", "3", "-", "0", "4", "-", "2", "0", "1", "5">>

\* "2015-03-04": yyyy-mm-dd, the same day as UsMar04
IsoMar04 == <<"2", "0", "1", "5", "-", "0", "3", "-", "0", "4">>

\* "13/01/2015": already dd/mm/yyyy
StdJan13 == <<"1", "3", "/", "0", "1", "/", "2", "0", "1", "5">>

\* "04/03/2015": already dd/mm/yyyy
StdMar04 == <<"0", "4", "/", "0", "3", "/", "2", "0", "1", "5">>

\* "2016-2-29": yyyy-m-dd, a leap day
IsoLeapDay == <<"2", "0", "1", "6", "-", "2", "-", "2", "9">>

\* "02-30-2015": mm-dd-yyyy shaped, no calendar date
UsFeb30 == <<"0", "2", "-", "3", "0", "-", "2", "0", "1", "5">>

\* "13-01-2015": dd-mm-yyyy: no candidate format
DashJan13 == <<"1", "3", "-", "0", "1", "-", "2", "0", "1", "5">>

DateInputs ==
    {IsoJan13, UsJan13, UsMar04, IsoMar04, StdJan13, StdMar04, IsoLeapDay,
     UsFeb30, DashJan13, NaNDate}

MainDateInputs == {IsoMar04, UsJan13, NaNDate}

Prices == {10, 40}

Cells == {NaN} \cup {<<v>> : v \in Prices}

MainCells == {NaN, <<10>>}

\* Every sequence over S of length at most n.
SeqsUpTo(S, n) == UNION {[1..k -> S] : k \in 0..n}

ColumnSets == {{"Close"}, {"Date"}, {"Date", "Close"}, {"Date", "Close", "Open"}}

\* The tables with columns cols and n rows that read_csv can return.
TablesOf(cols, n) ==
    {[c \in cols |-> IF c = "Date" THEN dates ELSE data[c]] :
        dates \in [1..n -> MainDateInputs],
        data \in [cols \ {"Date"} -> [1..n -> MainCells]]}

Files ==
    {[kind |-> k, table |-> <<>>] : k \in {"absent", "empty", "malformed"}}
    \cup {[kind |-> "table", table |-> t] :
            t \in UNION {TablesOf(cols, n) : cols \in ColumnSets, n \in 0..MainRows}}

NotRun == <<>>

\* Everything a run has not computed yet.
Fresh ==
    /\ df_standardized = NotRun
    /\ date_conversion_report = NotRun
    /\ parsed_dates = NotRun
    /\ df_restandardized = NotRun
    /\ reconversion_report = NotRun
    /\ date_errors = NotRun
    /\ timeseries_report = NotRun
    /\ df_clean = NotRun
    /\ imputation_report = NotRun
    /\ output_file = NotRun
    /\ exit_code = -1
    /\ stages = <<>>

---------------------------------------------------------------------------
(* main *)

Init ==
    /\ pc = "check_input"
    /\ file \in Files
    /\ args \in [max_consecutive : 1..MaxThreshold, skip_date_validation : BOOLEAN]
    /\ df = NotRun
    /\ Fresh

\* sys.exit(code).
Exit(code) ==
    /\ pc' = "exited"
    /\ exit_code' = code

\* if not os.path.exists(args.input_file): sys.exit(1)
CheckInputFile ==
    /\ pc = "check_input"
    /\ IF file.kind = "absent" THEN Exit(1)
       ELSE pc' = "read_csv" /\ UNCHANGED exit_code
    /\ UNCHANGED <<file, args, df, df_standardized, date_conversion_report,
                   parsed_dates, df_restandardized, reconversion_report,
                   date_errors, timeseries_report, df_clean, imputation_report,
                   output_file, stages>>

\* df = pd.read_csv(...): EmptyDataError for a file with no columns and
\* ParserError for a malformed one, both handled by sys.exit(1).
ReadCsv ==
    /\ pc = "read_csv"
    /\ IF file.kind \in {"empty", "malformed"}
       THEN Exit(1) /\ UNCHANGED df
       ELSE pc' = "validate_columns" /\ df' = file.table /\ UNCHANGED exit_code
    /\ UNCHANGED <<file, args, df_standardized, date_conversion_report,
                   parsed_dates, df_restandardized, reconversion_report,
                   date_errors, timeseries_report, df_clean, imputation_report,
                   output_file, stages>>

\* The two checks of the required columns.
ValidateColumns ==
    /\ pc = "validate_columns"
    /\ IF "Date" \notin DOMAIN df THEN Exit(1)
       ELSE IF Cardinality(DOMAIN df) < 2 THEN Exit(1)
       ELSE pc' = "standardize" /\ UNCHANGED exit_code
    /\ UNCHANGED <<file, args, df, df_standardized, date_conversion_report,
                   parsed_dates, df_restandardized, reconversion_report,
                   date_errors, timeseries_report, df_clean, imputation_report,
                   output_file, stages>>

\* df_standardized, date_conversion_report = standardize_dates(df)
Standardize ==
    /\ pc = "standardize"
    /\ \E r \in {standardize_dates(df)} :
           /\ df_standardized' = r.df
           /\ date_conversion_report' = r.report
           /\ parsed_dates' = r.parsed
    /\ stages' = Append(stages, "standardize_dates")
    /\ pc' = "check_date_column"
    /\ UNCHANGED <<file, args, df, df_restandardized, reconversion_report,
                   date_errors, timeseries_report, df_clean, imputation_report,
                   output_file, exit_code>>

\* date_errors = [], replaced by check_date_column unless validation is skipped.
CheckDateColumn ==
    /\ pc = "check_date_column"
    /\ IF args.skip_date_validation
       THEN date_errors' = <<>> /\ UNCHANGED stages
       ELSE /\ date_errors' = check_date_column(df_standardized)
            /\ stages' = Append(stages, "check_date_column")
    /\ pc' = "check_sequence"
    /\ UNCHANGED <<file, args, df, df_standardized, date_conversion_report,
                   parsed_dates, df_restandardized, reconversion_report,
                   timeseries_report, df_clean, imputation_report, output_file,
                   exit_code>>

\* is_sequential, timeseries_report = check_timeseries_sequence(df_standardized)
CheckSequence ==
    /\ pc = "check_sequence"
    /\ timeseries_report' = check_timeseries_sequence(df_standardized)
    /\ stages' = Append(stages, "check_timeseries_sequence")
    /\ pc' = "impute"
    /\ UNCHANGED <<file, args, df, df_standardized, date_conversion_report,
                   parsed_dates, df_restandardized, reconversion_report,
                   date_errors, df_clean, imputation_report, output_file,
                   exit_code>>

\* df_clean, imputation_report = impute_missing_values(df_standardized, ...)
Impute ==
    /\ pc = "impute"
    /\ \E r \in {impute_missing_values(df_standardized, args.max_consecutive)} :
           /\ df_clean' = r.df
           /\ imputation_report' = r.report
    /\ stages' = Append(stages, "impute_missing_values")
    /\ pc' = "save"
    /\ UNCHANGED <<file, args, df, df_standardized, date_conversion_report,
                   parsed_dates, df_restandardized, reconversion_report,
                   date_errors, timeseries_report, output_file, exit_code>>

\* print_report(...) prints only; df_clean.to_csv(output_file, index=False)
Save ==
    /\ pc = "save"
    /\ output_file' = <<df_clean>>
    /\ pc' = "finish"
    /\ UNCHANGED <<file, args, df, df_standardized, date_conversion_report,
                   parsed_dates, df_restandardized, reconversion_report,
                   date_errors, timeseries_report, df_clean, imputation_report,
                   stages, exit_code>>

\* Mutant of Finish: a run that found issues exits with status 1.
FinishFailingOnIssues ==
    /\ pc = "finish"
    /\ IF \/ date_errors # <<>>
          \/ ~timeseries_report.is_sequential
          \/ DOMAIN imputation_report.not_imputed # {}
       THEN Exit(1)
       ELSE Exit(0)
    /\ UNCHANGED <<file, args, df, df_standardized, date_conversion_report,
                   parsed_dates, df_restandardized, reconversion_report,
                   date_errors, timeseries_report, df_clean, imputation_report,
                   output_file, stages>>

\* sys.exit(0) when issues were found, the end of main otherwise.
Finish ==
    /\ pc = "finish"
    /\ Exit(0)
    /\ UNCHANGED <<file, args, df, df_standardized, date_conversion_report,
                   parsed_dates, df_restandardized, reconversion_report,
                   date_errors, timeseries_report, df_clean, imputation_report,
                   output_file, stages>>

Next ==
    \/ CheckInputFile
    \/ ReadCsv
    \/ ValidateColumns
    \/ Standardize
    \/ CheckDateColumn
    \/ CheckSequence
    \/ Impute
    \/ Save
    \/ Finish

Spec == Init /\ [][Next]_vars

\* main is one sequential thread: a statement that can run does run.
SpecLive == Spec /\ WF_vars(Next)

---------------------------------------------------------------------------
(* The date functions on their own: standardize_dates on a Date column,    *)
(* standardize_dates again on its output, check_timeseries_sequence on it. *)

NoArgs == [max_consecutive |-> 0, skip_date_validation |-> FALSE]

NoFile == [kind |-> "table", table |-> <<>>]

InitDates ==
    /\ pc = "dates_input"
    /\ file = NoFile
    /\ args = NoArgs
    /\ df \in {[Date |-> col] : col \in SeqsUpTo(DateInputs, MaxRows)}
    /\ Fresh

NormalizeDates ==
    /\ pc = "dates_input"
    /\ LET r == standardize_dates(df)
       IN  /\ df_standardized' = r.df
           /\ date_conversion_report' = r.report
           /\ parsed_dates' = r.parsed
    /\ stages' = Append(stages, "standardize_dates")
    /\ pc' = "dates_standardized"
    /\ UNCHANGED <<file, args, df, df_restandardized, reconversion_report,
                   date_errors, timeseries_report, df_clean, imputation_report,
                   output_file, exit_code>>

NormalizeAgain ==
    /\ pc = "dates_standardized"
    /\ LET r == standardize_dates(df_standardized)
       IN  /\ df_restandardized' = r.df
           /\ reconversion_report' = r.report
    /\ stages' = Append(stages, "standardize_dates")
    /\ pc' = "dates_restandardized"
    /\ UNCHANGED <<file, args, df, df_standardized, date_conversion_report,
                   parsed_dates, date_errors, timeseries_report, df_clean,
                   imputation_report, output_file, exit_code>>

ValidateSequence ==
    /\ pc = "dates_restandardized"
    /\ timeseries_report' = check_timeseries_sequence(df_standardized)
    /\ stages' = Append(stages, "check_timeseries_sequence")
    /\ pc' = "dates_checked"
    /\ UNCHANGED <<file, args, df, df_standardized, date_conversion_report,
                   parsed_dates, df_restandardized, reconversion_report,
                   date_errors, df_clean, imputation_report, output_file,
                   exit_code>>

NextDates ==
    \/ NormalizeDates
    \/ NormalizeAgain
    \/ ValidateSequence

SpecDates == InitDates /\ [][NextDates]_vars

---------------------------------------------------------------------------
(* The gap imputer on its own: impute_missing_values on a table with a     *)
(* Date column and one numeric column.                                     *)

InitImpute ==
    /\ pc = "impute_input"
    /\ file = NoFile
    /\ args \in [max_consecutive : 0..MaxThreshold, skip_date_validation : {FALSE}]
    /\ df \in {[Date |-> [i \in 1..Len(col) |-> StdJan13], Close |-> col] :
                 col \in SeqsUpTo(Cells, MaxLen)}
    /\ Fresh

ImputeGaps ==
    /\ pc = "impute_input"
    /\ LET r == impute_missing_values(df, args.max_consecutive)
       IN  /\ df_clean' = r.df
           /\ imputation_report' = r.report
    /\ stages' = Append(stages, "impute_missing_values")
    /\ pc' = "impute_done"
    /\ UNCHANGED <<file, args, df, df_standardized, date_conversion_report,
                   parsed_dates, df_restandardized, reconversion_report,
                   date_errors, timeseries_report, output_file, exit_code>>

NextImpute == ImputeGaps

SpecImpute == InitImpute /\ [][NextImpute]_vars

---------------------------------------------------------------------------
(* Claims about the date functions, under SpecDates *)

\* The Date column given to standardize_dates, as the strings it reads.
RawDates == [i \in 1..Len(df["Date"]) |-> str(df["Date"][i])]

Normalized == pc \in {"dates_standardized", "dates_restandardized", "dates_checked"}

\* s is a date written in the output format dd/mm/yyyy.
IsCanonical(s) ==
    /\ strptime(s, FmtDMYSlash) # None
    /\ strftime(strptime(s, FmtDMYSlash), FmtDMYSlash) = s

CanonicalRows == {i \in 1..Len(RawDates) : IsCanonical(RawDates[i])}

\* C1: after standardize_dates, every row whose date was already written in
\* the output format dd/mm/yyyy keeps its string, has no entry in 'errors',
\* and is counted in 'already_standard' and not in 'converted'.
C1_CanonicalIsAlreadyStandard ==
    Normalized =>
        /\ \A i \in CanonicalRows : df_standardized["Date"][i] = RawDates[i]
        /\ \A i \in CanonicalRows :
              \A e \in 1..Len(date_conversion_report.errors) :
                  date_conversion_report.errors[e].row # i + 1
        /\ date_conversion_report.already_standard >= Cardinality(CanonicalRows)
        /\ date_conversion_report.converted
              <= Len(RawDates) - Cardinality(CanonicalRows)

\* C2: standardize_dates run on the output of standardize_dates returns the
\* same Date column and reports converted = 0.
C2_SecondRunIsNoOp ==
    pc \in {"dates_restandardized", "dates_checked"} =>
        /\ df_restandardized = df_standardized
        /\ reconversion_report.converted = 0

\* C2 witness: a second run after a first run that converted two rows and
\* kept an unparsable one.
C2_Witness ==
    /\ pc = "dates_restandardized"
    /\ date_conversion_report.converted >= 2
    /\ Len(date_conversion_report.errors) >= 1
    /\ \E i \in 1..Len(RawDates) : RawDates[i] = UsMar04

\* A date as one number, ordered as the calendar is.
DateKey(d) == d[1] * 10000 + d[2] * 100 + d[3]

\* The column check_timeseries_sequence reads, and its rows that parse as
\* dd/mm/yyyy.
CheckedDates == [i \in 1..Len(df_standardized["Date"]) |-> str(df_standardized["Date"][i])]

Parsable == {i \in 1..Len(CheckedDates) : strptime(CheckedDates[i], FmtDMYSlash) # None}

KeyAt(i) == DateKey(strptime(CheckedDates[i], FmtDMYSlash))

\* Row i parses and its date is before the date of the nearest parsable row
\* above it.
PrecedesPrevious(i) ==
    /\ i \in Parsable
    /\ \E j \in Parsable :
          /\ j < i
          /\ \A k \in Parsable : k < i => k <= j
          /\ KeyAt(i) < KeyAt(j)

ViolationsAt(i) ==
    {e \in 1..Len(timeseries_report.out_of_order) :
        timeseries_report.out_of_order[e].row = i + 1}

\* C7: is_sequential holds exactly when every row parses as dd/mm/yyyy and
\* no parsable row is dated before the nearest parsable row above it (equal
\* dates pass); an unparsable row has exactly one violation ("Cannot parse
\* date"), a parsable row dated before the nearest parsable row above it has
\* exactly one (naming it as coming before the previous date), and every
\* other row has none.
C7_SequenceValidator ==
    pc = "dates_checked" =>
        /\ timeseries_report.is_sequential <=>
              /\ Parsable = 1..Len(CheckedDates)
              /\ \A i \in Parsable : ~PrecedesPrevious(i)
        /\ \A i \in 1..Len(CheckedDates) :
              IF i \notin Parsable
              THEN /\ Cardinality(ViolationsAt(i)) = 1
                   /\ \A e \in ViolationsAt(i) :
                         /\ timeseries_report.out_of_order[e].reason = "Cannot parse date"
                         /\ timeseries_report.out_of_order[e].date = CheckedDates[i]
              ELSE IF PrecedesPrevious(i)
              THEN /\ Cardinality(ViolationsAt(i)) = 1
                   /\ \A e \in ViolationsAt(i) :
                         /\ timeseries_report.out_of_order[e].reason
                               = "comes before previous date"
                         /\ timeseries_report.out_of_order[e].date = CheckedDates[i]
              ELSE ViolationsAt(i) = {}
        /\ \A e \in 1..Len(timeseries_report.out_of_order) :
              timeseries_report.out_of_order[e].row - 1 \in 1..Len(CheckedDates)

\* C7 witness: a checked column with an unparsable row between two parsable
\* rows, the lower one dated before the upper one.
C7_Witness ==
    /\ pc = "dates_checked"
    /\ Len(CheckedDates) = 3
    /\ Parsable = {1, 3}
    /\ KeyAt(3) < KeyAt(1)
    /\ ~timeseries_report.is_sequential

\* A string of the shape dd-dd-dddd (d a digit).
IsTwoTwoFour(s) ==
    /\ Len(s) = 10
    /\ s[3] = "-"
    /\ s[6] = "-"
    /\ \A k \in {1, 2, 4, 5, 7, 8, 9, 10} : s[k] \in Digits

FieldMonthFirst(s) ==
    <<IntOf(SubSeq(s, 7, 10)), IntOf(SubSeq(s, 1, 2)), IntOf(SubSeq(s, 4, 5))>>

IsCalendarDate(d) ==
    /\ d[1] >= 1
    /\ d[2] \in 1..12
    /\ d[3] >= 1
    /\ d[3] <= DaysInMonth(d[1], d[2])

FormatsAccepting(s) ==
    {k \in 1..Len(date_formats) : strptime(s, date_formats[k]) # None}

\* C8: the parsed date of a row is the one given by the first candidate
\* format, in the fixed order yyyy-mm-dd then mm-dd-yyyy, that parses the
\* whole string, and None when no candidate does; a string dd-dd-dddd whose
\* fields are a calendar date read month first is read month first (its
\* first field is the month, its second the day), so "03-04-2015" is
\* 4 March 2015 written 04/03/2015.
C8_FirstMatchingFormatWins ==
    Normalized =>
        \A i \in 1..Len(RawDates) :
            /\ IF FormatsAccepting(RawDates[i]) = {}
               THEN parsed_dates[i] = None
               ELSE \E k \in FormatsAccepting(RawDates[i]) :
                       /\ \A j \in FormatsAccepting(RawDates[i]) : k <= j
                       /\ parsed_dates[i] = strptime(RawDates[i], date_formats[k])
            /\ (IsTwoTwoFour(RawDates[i]) /\ IsCalendarDate(FieldMonthFirst(RawDates[i])))
                  => parsed_dates[i] = FieldMonthFirst(RawDates[i])
            /\ RawDates[i] = UsMar04 => df_standardized["Date"][i] = StdMar04

\* C8 witness: "03-04-2015", valid month first and day first, standardized.
C8_Witness ==
    /\ pc = "dates_standardized"
    /\ \E i \in 1..Len(RawDates) :
          /\ RawDates[i] = UsMar04
          /\ parsed_dates[i] = <<2015, 3, 4>>

\* The rows whose string no candidate format parses.
UnparsedRows == {i \in 1..Len(RawDates) : FormatsAccepting(RawDates[i]) = {}}

\* C9: a row that matches no candidate format keeps its string and has
\* exactly one entry {row = idx + 2, value = the string} in 'errors'; rows
\* that parse have none; the entries are in row order.
C9_ParseFailuresKeptAndListed ==
    Normalized =>
        /\ \A i \in UnparsedRows : df_standardized["Date"][i] = RawDates[i]
        /\ Len(date_conversion_report.errors) = Cardinality(UnparsedRows)
        /\ \A e \in 1..Len(date_conversion_report.errors) :
              /\ date_conversion_report.errors[e].row - 1 \in UnparsedRows
              /\ date_conversion_report.errors[e].value
                    = RawDates[date_conversion_report.errors[e].row - 1]
        /\ \A e, f \in 1..Len(date_conversion_report.errors) :
              e < f => date_conversion_report.errors[e].row
                          < date_conversion_report.errors[f].row

\* C9 witness: two unparsable rows around one that parses.
C9_Witness ==
    /\ pc = "dates_standardized"
    /\ UnparsedRows = {1, 3}
    /\ Len(RawDates) = 3
    /\ RawDates[1] # RawDates[3]

---------------------------------------------------------------------------
(* Claims about the gap imputer, under SpecImpute *)

Imputed == pc = "impute_done"

\* The numeric column before and after impute_missing_values.
ColumnIn == df["Close"]

ColumnOut == df_clean["Close"]

\* The maximal runs of missing cells of a column, as <<first, last>>.
MaximalRuns(col) ==
    {r \in (1..Len(col)) \X (1..Len(col)) :
        /\ r[1] <= r[2]
        /\ \A k \in r[1]..r[2] : isna(col[k])
        /\ r[1] = 1 \/ ~isna(col[r[1] - 1])
        /\ r[2] = Len(col) \/ ~isna(col[r[2] + 1])}

RunLength(r) == r[2] - r[1] + 1

\* The entries the report lists for the column under 'imputed' or
\* 'not_imputed'.
EntriesUnder(kind) ==
    IF "Close" \in DOMAIN imputation_report[kind]
    THEN imputation_report[kind]["Close"]
    ELSE <<>>

\* The positions <<first, last>> a 'rows' text names: "a-b" or "a", each row
\* number being position + 1.
RowsOf(rows) ==
    IF \E k \in 1..Len(rows) : rows[k] = "-"
    THEN LET k == CHOOSE k \in 1..Len(rows) : rows[k] = "-"
         IN  <<IntOf(SubSeq(rows, 1, k - 1)) - 1,
               IntOf(SubSeq(rows, k + 1, Len(rows))) - 1>>
    ELSE <<IntOf(rows) - 1, IntOf(rows) - 1>>

\* The entries under kind that name run r.
EntriesFor(kind, r) ==
    {e \in 1..Len(EntriesUnder(kind)) : RowsOf(EntriesUnder(kind)[e].rows) = r}

HasBorder(col, r) == r[1] > 1 \/ r[2] < Len(col)

\* C3: every maximal run of missing cells has exactly one report entry,
\* under 'imputed' exactly when its length is <= max_consecutive and under
\* 'not_imputed' exactly when it is longer; a run longer than the threshold
\* is left missing, and a run within it that borders a present value is
\* filled (with max_consecutive = 2: a run of 2 is filled, a run of 3 is not).
C3_ThresholdBoundary ==
    Imputed =>
        \A r \in MaximalRuns(ColumnIn) :
            /\ Cardinality(EntriesFor("imputed", r))
                  + Cardinality(EntriesFor("not_imputed", r)) = 1
            /\ EntriesFor("imputed", r) # {} <=> RunLength(r) <= args.max_consecutive
            /\ EntriesFor("not_imputed", r) # {} <=> RunLength(r) > args.max_consecutive
            /\ RunLength(r) > args.max_consecutive
                  => \A k \in r[1]..r[2] : isna(ColumnOut[k])
            /\ (RunLength(r) <= args.max_consecutive /\ HasBorder(ColumnIn, r))
                  => \A k \in r[1]..r[2] : ~isna(ColumnOut[k])

\* C3 witness: threshold 2, a run of exactly 2 and a run of exactly 3.
C3_Witness ==
    /\ Imputed
    /\ args.max_consecutive = 2
    /\ \E r, q \in MaximalRuns(ColumnIn) : RunLength(r) = 2 /\ RunLength(q) = 3

PresentBefore(col, k) == {j \in 1..(k - 1) : ~isna(col[j])}

PresentAfter(col, k) == {j \in (k + 1)..Len(col) : ~isna(col[j])}

\* The nearest present value of col above position k, and below it.
NearestBefore(col, k) ==
    col[CHOOSE j \in PresentBefore(col, k) : \A i \in PresentBefore(col, k) : i <= j]

NearestAfter(col, k) ==
    col[CHOOSE j \in PresentAfter(col, k) : \A i \in PresentAfter(col, k) : j <= i]

\* C4: every cell of a run of length <= max_consecutive that borders a
\* present value holds, after impute_missing_values, the nearest present
\* value above it when the run has a row above it, and otherwise (the run
\* starts at the first row) the nearest present value below it.
C4_FillValues ==
    Imputed =>
        \A r \in MaximalRuns(ColumnIn) :
            (RunLength(r) <= args.max_consecutive /\ HasBorder(ColumnIn, r)) =>
                \A k \in r[1]..r[2] :
                    ColumnOut[k] = IF r[1] > 1 THEN NearestBefore(ColumnIn, k)
                                   ELSE NearestAfter(ColumnIn, k)

\* C4 witness: [missing, missing, 40, 10, missing, missing, 40] with
\* threshold 2 becomes [40, 40, 40, 10, 10, 10, 40].
C4_Witness ==
    /\ Imputed
    /\ args.max_consecutive = 2
    /\ ColumnIn = <<NaN, NaN, <<40>>, <<10>>, NaN, NaN, <<40>>>>
    /\ ColumnOut = <<<<40>>, <<40>>, <<40>>, <<10>>, <<10>>, <<10>>, <<40>>>>

\* C5: every run the report lists under 'imputed' has all of its cells
\* present in the cleaned table (a column missing throughout, of length <=
\* max_consecutive, is not reported as imputed).
C5_ImputedMeansFilled ==
    Imputed =>
        \A e \in 1..Len(EntriesUnder("imputed")) :
            \A k \in RowsOf(EntriesUnder("imputed")[e].rows)[1]
                     ..RowsOf(EntriesUnder("imputed")[e].rows)[2] :
                ~isna(ColumnOut[k])

\* What the report says of the column: the runs it names with their counts.
ReportedUnder(kind) ==
    {<<RowsOf(EntriesUnder(kind)[e].rows), EntriesUnder(kind)[e].count>> :
        e \in 1..Len(EntriesUnder(kind))}

ReportedRuns == ReportedUnder("imputed") \cup ReportedUnder("not_imputed")

\* C6: the runs the report names (imputed plus not_imputed) are exactly the
\* maximal runs of missing cells of the input column, each once, with its
\* first row, its last row and the number of its cells as count.
C6_GapDetection ==
    Imputed =>
        /\ ReportedRuns = {<<r, RunLength(r)>> : r \in MaximalRuns(ColumnIn)}
        /\ Len(EntriesUnder("imputed")) + Len(EntriesUnder("not_imputed"))
              = Cardinality(MaximalRuns(ColumnIn))

\* C6 witness: missing at the 0-based indices {2, 3, 7} alone: two runs, of
\* length 2 (indices 2-3) and of length 1 (index 7).
C6_Witness ==
    /\ Imputed
    /\ Len(ColumnIn) = 8
    /\ {k \in 1..Len(ColumnIn) : isna(ColumnIn[k])} = {3, 4, 8}
    /\ ReportedRuns = {<<<<3, 4>>, 2>>, <<<<8, 8>>, 1>>}

---------------------------------------------------------------------------
(* Claims about main, under Spec *)

\* The input is no table with a Date column, a numeric column and a row.
StructurallyInvalid ==
    \/ file.kind = "empty"
    \/ /\ file.kind = "table"
       /\ \/ "Date" \notin DOMAIN file.table
          \/ DOMAIN file.table \ {"Date"} = {}
          \/ len(file.table) = 0

\* C10: when the input table has no Date column, no numeric column or no
\* row, main runs no transformation stage, writes no cleaned table and
\* exits with a non-zero status.
C10_StructuralErrorFailsFast ==
    StructurallyInvalid =>
        /\ stages = <<>>
        /\ output_file = NotRun
        /\ pc = "exited" => exit_code # 0

---------------------------------------------------------------------------
(* Claims about main, under SpecLive *)

\* The input is a table with a Date column, a data column and a row.
StructurallyValid ==
    /\ file.kind = "table"
    /\ "Date" \in DOMAIN file.table
    /\ DOMAIN file.table \ {"Date"} # {}
    /\ len(file.table) > 0

\* The inputs main rejects: no file, no columns, a malformed file, no Date
\* column, no column besides Date.
FatalInput ==
    \/ file.kind # "table"
    \/ "Date" \notin DOMAIN file.table
    \/ Cardinality(DOMAIN file.table) < 2

IsCoreStage(stage) == stage # "check_date_column"

\* main has exited with status 0 after running normalize, validate and
\* impute in that order and writing the cleaned table.
CompletedInOrder ==
    /\ pc = "exited"
    /\ exit_code = 0
    /\ output_file = <<df_clean>>
    /\ SelectSeq(stages, IsCoreStage)
          = <<"standardize_dates", "check_timeseries_sequence", "impute_missing_values">>

---------------------------------------------------------------------------
(* Frame of the Gap Imputer, under SpecImpute *)

\* The maximal runs of missing cells of the input that position k lies in.
RunsAround(k) ==
    {r \in MaximalRuns(ColumnIn) : r[1] <= k /\ k <= r[2]}

ChangedCells == {k \in 1..Len(ColumnIn) : ColumnOut[k] # ColumnIn[k]}

ImputerFrame ==
    /\ DOMAIN df_clean = DOMAIN df
    /\ Len(ColumnOut) = Len(ColumnIn)
    /\ \A k \in 1..Len(ColumnIn) :
          ~isna(ColumnIn[k]) => ColumnOut[k] = ColumnIn[k]
    /\ \A r \in MaximalRuns(ColumnIn) :
          RunLength(r) > args.max_consecutive
             => \A k \in r[1]..r[2] : isna(ColumnOut[k])
    /\ \A k \in ChangedCells :
          \E r \in RunsAround(k) : RunLength(r) <= args.max_consecutive
    /\ df_clean["Date"] = df["Date"]

\* C12: impute_missing_values changes only cells inside a run of missing
\* cells of length <= max_consecutive: every cell present in the input
\* (the bordering rows too) has the same value in the output, every cell of
\* a longer run is still missing, the Date column is the same, and the
\* table passed in is left as it was.
C12_ImputerFrame ==
    /\ [](Imputed => ImputerFrame)
    /\ [][df' = df]_vars

\* C12 witness: a call that filled a short run between two present cells
\* and left a longer run of the same column missing.
C12_Witness ==
    /\ Imputed
    /\ ChangedCells # {}
    /\ \E r \in MaximalRuns(ColumnIn) :
          /\ RunLength(r) <= args.max_consecutive
          /\ r[1] > 1 /\ r[2] < Len(ColumnIn)
          /\ \A k \in r[1]..r[2] : k \in ChangedCells
    /\ \E r \in MaximalRuns(ColumnIn) :
          /\ RunLength(r) > args.max_consecutive
          /\ HasBorder(ColumnIn, r)

---------------------------------------------------------------------------
(* Rows of the tables main passes along, under Spec *)

HasRun(stage) == \E k \in 1..Len(stages) : stages[k] = stage

\* Every column of table t has n rows.
HasRows(t, n) == \A c \in DOMAIN t : Len(t[c]) = n

\* out is what row i of the raw Date column becomes: its text, or the
\* dd/mm/yyyy text of the date one of the candidate formats reads in it.
DateOfRow(out, i) ==
    \/ out = str(df["Date"][i])
    \/ \E fmt \in {FmtYMD, FmtMDY} :
          /\ strptime(str(df["Date"][i]), fmt) # None
          /\ out = strftime(strptime(str(df["Date"][i]), fmt), FmtDMYSlash)

StandardizedKeepsRows ==
    /\ DOMAIN df_standardized = DOMAIN df
    /\ HasRows(df_standardized, len(df))
    /\ \A c \in DOMAIN df \ {"Date"} : df_standardized[c] = df[c]
    /\ \A i \in 1..len(df) : DateOfRow(df_standardized["Date"][i], i)

CleanKeepsRows ==
    /\ DOMAIN df_clean = DOMAIN df
    /\ HasRows(df_clean, len(df))
    /\ df_clean["Date"] = df_standardized["Date"]
    /\ \A c \in DOMAIN df \ {"Date"} : \A i \in 1..len(df) :
          ~isna(df[c][i]) => df_clean[c][i] = df[c][i]

\* C13: the table standardize_dates returns and the table
\* impute_missing_values returns have as many rows as the raw table, in the
\* same order: row i holds the data cells of raw row i and the date written
\* in raw row i (kept or rendered as dd/mm/yyyy).
C13_RowsKeptInOrder ==
    /\ HasRun("standardize_dates") => StandardizedKeepsRows
    /\ HasRun("impute_missing_values") => CleanKeepsRows

\* C13 witness: a two-row table whose first date was converted, whose
\* second date did not parse, and in which a cell was filled.
C13_Witness ==
    /\ HasRun("impute_missing_values")
    /\ len(df) = MainRows
    /\ parsed_dates[1] # None
    /\ df_standardized["Date"][1] # str(df["Date"][1])
    /\ parsed_dates[MainRows] = None
    /\ \E c \in DOMAIN df \ {"Date"} : \E i \in 1..len(df) :
          df_clean[c][i] # df[c][i]

---------------------------------------------------------------------------
(* convert_dates.py *)

Whitespace == {" "}

RECURSIVE lstrip(_)
lstrip(s) ==
    IF s # <<>> /\ Head(s) \in Whitespace THEN lstrip(Tail(s)) ELSE s

RECURSIVE rstrip(_)
rstrip(s) ==
    IF s # <<>> /\ s[Len(s)] \in Whitespace
    THEN rstrip(SubSeq(s, 1, Len(s) - 1))
    ELSE s

\* str.strip()
strip(s) == rstrip(lstrip(s))

\* re.fullmatch(r"\d{4}-\d{2}-\d{2}", s)
FullMatchYearFirst(s) ==
    /\ Len(s) = 10
    /\ \A k \in {1, 2, 3, 4, 6, 7, 9, 10} : s[k] \in Digits
    /\ s[5] = "-"
    /\ s[8] = "-"

\* re.fullmatch(r"\d{2}-\d{2}-\d{4}", s)
FullMatchMonthFirst(s) ==
    /\ Len(s) = 10
    /\ \A k \in {1, 2, 4, 5, 7, 8, 9, 10} : s[k] \in Digits
    /\ s[3] = "-"
    /\ s[6] = "-"

\* The format parse_mixed_date hands to strptime for its "Format 1".
FmtYDM == <<"%Y", "-", "%d", "-", "%m">>

\* parse_mixed_date(date_str); None stands for the ValueError it raises,
\* its own or the one of strptime.
parse_mixed_date(date_str) ==
    CHOOSE dt \in
      {IF FullMatchYearFirst(s) THEN strptime(s, FmtYDM)
       ELSE IF FullMatchMonthFirst(s) THEN strptime(s, FmtMDY)
       ELSE None :
         s \in {strip(date_str)}} : TRUE

\* The body of the loop of convert_file for a row that is not empty: the
\* first field rewritten when it parses, the row as it is otherwise.
ConvertRow(row) ==
    CHOOSE written \in
      {IF dt # None THEN [row EXCEPT ![1] = strftime(dt, FmtDMYSlash)] ELSE row :
         dt \in {parse_mixed_date(strip(row[1]))}} : TRUE

\* for row in reader, from row k on; written holds the rows given to
\* writer.writerow so far.  An empty row is skipped.
RECURSIVE ConvertLoop(_, _, _)
ConvertLoop(rows, k, written) ==
    IF k > Len(rows) THEN written
    ELSE IF rows[k] = <<>> THEN ConvertLoop(rows, k + 1, written)
    ELSE ConvertLoop(rows, k + 1, Append(written, ConvertRow(rows[k])))

\* convert_file(in_path, out_path), on the rows csv.reader yields.
convert_file(rows) == ConvertLoop(rows, 1, <<>>)

\* The longest input file of convert_file, in rows.
MaxConvertRows == 2

PaddedUsJan13 == <<" ">> \o UsJan13 \o <<" ">>

HeaderDate == <<"D", "a", "t", "e">>

FirstFields ==
    {IsoJan13, IsoMar04, UsJan13, UsMar04, StdJan13, UsFeb30, IsoLeapDay,
     PaddedUsJan13, HeaderDate, <<>>}

\* The rows of the input file: a first field and a price, or an empty row.
RowInputs == {<<first, <<"1", "0">>>> : first \in FirstFields} \cup {<<>>}

InitConvert ==
    /\ pc = "convert_input"
    /\ file \in {[kind |-> "rows", table |-> rows] :
                   rows \in SeqsUpTo(RowInputs, MaxConvertRows)}
    /\ args = NoArgs
    /\ df = NotRun
    /\ Fresh

ConvertFile ==
    /\ pc = "convert_input"
    /\ output_file' = <<convert_file(file.table)>>
    /\ pc' = "convert_done"
    /\ UNCHANGED <<file, args, df, df_standardized, date_conversion_report,
                   parsed_dates, df_restandardized, reconversion_report,
                   date_errors, timeseries_report, df_clean, imputation_report,
                   exit_code, stages>>

NextConvert == ConvertFile

SpecConvert == InitConvert /\ [][NextConvert]_vars

---------------------------------------------------------------------------
(* Claims about convert_dates.py, under SpecConvert *)

IsRow(row) == row # <<>>

\* The rows of the input that hold a field, and the rows written.
RowsRead == SelectSeq(file.table, IsRow)

RowsWritten == output_file[1]

FieldYearFirst(s) ==
    <<IntOf(SubSeq(s, 1, 4)), IntOf(SubSeq(s, 6, 7)), IntOf(SubSeq(s, 9, 10))>>

\* s is a calendar date written dddd-dd-dd, year, month, day.
IsYearFirstDate(s) ==
    FullMatchYearFirst(s) /\ IsCalendarDate(FieldYearFirst(s))

\* s is a calendar date written dd-dd-dddd, month, day, year.
IsMonthFirstDate(s) ==
    FullMatchMonthFirst(s) /\ IsCalendarDate(FieldMonthFirst(s))

\* Row i was written with its first field replaced by the dd/mm/yyyy text
\* of date, which is also what parse_date_with_multiple_formats reads in it.
RewrittenAs(i, date) ==
    /\ RowsWritten[i] = [RowsRead[i] EXCEPT ![1] = strftime(date, FmtDMYSlash)]
    /\ parse_date_with_multiple_formats(RowsRead[i][1]) = date

\* C14: convert_file writes the non-empty rows in their order; a first
\* field that is a calendar date written YYYY-MM-DD or MM-DD-YYYY is
\* rewritten as the dd/mm/yyyy text of that same date, the date
\* parse_date_with_multiple_formats reads in it; a row whose first field has
\* neither shape is written as it was read.
C14_ConvertFileRewritesDates ==
    pc = "convert_done" =>
        /\ Len(RowsWritten) = Len(RowsRead)
        /\ \A i \in 1..Len(RowsRead) :
              /\ IsYearFirstDate(RowsRead[i][1])
                    => RewrittenAs(i, FieldYearFirst(RowsRead[i][1]))
              /\ IsMonthFirstDate(RowsRead[i][1])
                    => RewrittenAs(i, FieldMonthFirst(RowsRead[i][1]))
              /\ (~FullMatchYearFirst(strip(RowsRead[i][1]))
                    /\ ~FullMatchMonthFirst(strip(RowsRead[i][1])))
                    => RowsWritten[i] = RowsRead[i]

====
